---- MODULE Spec2Model ----
(***************************************************************************)
(* Discovery pass of utoipauto-core (src/utoipauto-core/src/discover.rs).  *)
(*                                                                         *)
(* discover_from_file obtains the parsed files, walks every file's items   *)
(* with parse_module_items (recursing into inline modules), and folds the  *)
(* DiscoverType entries into three vectors of paths.                       *)
(*                                                                         *)
(* Data model                                                              *)
(*   syn::Path        [leading_colon, segments], segments a sequence of    *)
(*                    [ident, arguments]                                   *)
(*   syn::Attribute   [path, form, nested]; form is "path" (#[a]),         *)
(*                    "list" (#[a(m1, m2)] whose tokens parse as a         *)
(*                    comma-separated Meta list) or "badlist" (#[a(..)]    *)
(*                    whose tokens do not); nested holds the paths of the  *)
(*                    nested metas                                         *)
(*   syn::Type        [kind, qself, position, path]; kind "Path" (Foo,     *)
(*                    a::Foo, Foo<T>, ::a::Foo; with qself and position 0  *)
(*                    <Foo>::Out, with qself and position 1                *)
(*                    <Foo as Tr>::Out, path then being Tr::Out),          *)
(*                    "Reference" (&Foo) or "Tuple" ((Foo,))               *)
(*   syn::Item        [kind, ident, attrs, generics, trait_, self_ty,      *)
(*                    inline, content]; the fields a kind does not have    *)
(*                    hold a fixed filler                                  *)
(*   a call's result  [panic, out]: the call panicked, or returned out     *)
(***************************************************************************)
EXTENDS Naturals, Sequences, FiniteSets

VARIABLES
    files,      \* what parse_files(&src_path) returns: [ok, list of [module, items]]
    parameters, \* the Parameters record passed as params
    pc,         \* "start", "walk", "fold", "done", "panic"
    cursor,     \* index of the next file (walk) or the next entry (fold)
    entries,    \* the Vec<DiscoverType> accumulated by the first fold
    operations, \* acc.0 of the second fold
    models,     \* acc.1
    responses   \* acc.2

vars == <<files, parameters, pc, cursor, entries, operations, models, responses>>

---------------------------------------------------------------------------
(* Bounds of the enumerated inputs *)

\* attributes attached to one declaration
MaxAttrs == 2
\* nested metas inside one derive attribute
MaxNested == 2
\* declarations in one flat item list
MaxItems == 2
\* depth of inline module nesting
MaxDepth == 2
\* files returned by the collector
MaxFiles == 2

---------------------------------------------------------------------------
(* syn values *)

Seg(s) == [ident |-> s, arguments |-> "None"]

SegArgs(s) == [ident |-> s, arguments |-> "AngleBracketed"]

RECURSIVE Segs(_)
Segs(ss) == IF ss = <<>> THEN <<>> ELSE <<Seg(Head(ss))>> \o Segs(Tail(ss))

Path(leading_colon, segments) ==
    [leading_colon |-> leading_colon, segments |-> segments]

\* a::b
Idents(ss) == Path(FALSE, Segs(ss))

\* ::a::b
ColonIdents(ss) == Path(TRUE, Segs(ss))

\* syn::Path::is_ident / get_ident: no leading colon, one segment, no
\* arguments, that identifier
is_ident(path, s) ==
    /\ ~path.leading_colon
    /\ Len(path.segments) = 1
    /\ path.segments[1].arguments = "None"
    /\ path.segments[1].ident = s

\* the token stream of an identifier, as interpolated by parse_quote!
IdentTokens(id) ==
    [kind |-> "Path", qself |-> FALSE, position |-> 0, path |-> Idents(<<id>>)]

Ok(v) == [panic |-> FALSE, out |-> v]

Panic == [panic |-> TRUE, out |-> <<>>]

DiscoverType(kind, path) == [kind |-> kind, path |-> path]

---------------------------------------------------------------------------
(* discover.rs, bottom-up *)

\* the segments syn's PathSegment parser returns without looking for
\* generic arguments
PathKeywords == {"crate", "self", "super", "try"}

\* build_path returning the name alone, without the namespace path
build_path_relative(file_path, fn_name) ==
    IF fn_name.kind # "Path" THEN Panic
    ELSE IF ~fn_name.qself
    THEN IF fn_name.path.leading_colon THEN Panic
         ELSE Ok(Path(file_path.leading_colon, fn_name.path.segments))
    ELSE IF fn_name.position > 0 THEN Panic
    ELSE LET last == file_path.segments[Len(file_path.segments)]
         IN  IF last.ident \in PathKeywords \/ last.arguments # "None" THEN Panic
             ELSE Ok(Path(file_path.leading_colon, fn_name.path.segments))

\* build_path: parse_quote!(#file_path::#fn_name). The interpolated tokens
\* must parse as a whole as one syn::Path; parse_quote! panics when they do
\* not.
\*  - fn_name is no path (&Foo, (Foo,)): panic.
\*  - fn_name is a path without qualified self type: its segments follow
\*    the namespace's, unless it starts with a colon (crate::::a::Foo): panic.
\*  - fn_name is <Foo as Tr>::Out (position > 0): the tokens between < and >
\*    are no generic argument list: panic.
\*  - fn_name is <Foo>::Out (position 0): syn reads ::<Foo> as the generic
\*    arguments of the namespace's last segment, so the result is
\*    crate / m1<..> / Out; a segment that is a path keyword takes no
\*    arguments, and neither does one that already has some: panic.
build_path(file_path, fn_name) ==
    IF fn_name.kind # "Path" THEN Panic
    ELSE IF ~fn_name.qself
    THEN IF fn_name.path.leading_colon THEN Panic
         ELSE Ok(Path(file_path.leading_colon,
                      file_path.segments \o fn_name.path.segments))
    ELSE IF fn_name.position > 0 THEN Panic
    ELSE LET n == Len(file_path.segments)
             last == file_path.segments[n]
         IN  IF last.ident \in PathKeywords \/ last.arguments # "None" THEN Panic
             ELSE Ok(Path(file_path.leading_colon,
                          SubSeq(file_path.segments, 1, n - 1)
                          \o <<SegArgs(last.ident)>>
                          \o fn_name.path.segments))

\* is_ignored: some attribute's path is the single identifier utoipa_ignore
is_ignored(f) ==
    \E n \in 1..Len(f.attrs) : is_ident(f.attrs[n].path, "utoipa_ignore")

should_parse_fn(f) == f.attrs # <<>> /\ ~is_ignored(f)

\* the test of lines 152-157: any segment of the attribute's path equals
\* the function marker
fn_attr_matches(attr, fn_attributes_name) ==
    \E n \in 1..Len(attr.path.segments) :
        attr.path.segments[n].ident = fn_attributes_name

\* parse_function reporting a function once however many attributes match
parse_function_dedup(f, fn_attributes_name) ==
    IF should_parse_fn(f)
       /\ \E n \in 1..Len(f.attrs) : fn_attr_matches(f.attrs[n], fn_attributes_name)
    THEN <<f.ident>>
    ELSE <<>>

\* parse_function: one copy of the function's identifier per matching
\* attribute, in attribute order
parse_function(f, fn_attributes_name) ==
    IF should_parse_fn(f)
    THEN LET hit(attr) == fn_attr_matches(attr, fn_attributes_name)
             matching == SelectSeq(f.attrs, hit)
         IN  [n \in 1..Len(matching) |-> f.ident]
    ELSE <<>>

\* nested_meta_entries testing the response marker only when the model
\* marker did not match
nested_meta_entries_exclusive(nested_meta, name, params) ==
    IF Len(nested_meta.segments) = 2 /\ nested_meta.segments[1].ident = "utoipa"
    THEN CASE nested_meta.segments[2].ident = "ToSchema" ->
                <<DiscoverType("Model", name)>>
           [] nested_meta.segments[2].ident = "ToResponse" ->
                <<DiscoverType("Response", name)>>
           [] OTHER -> <<>>
    ELSE IF is_ident(nested_meta, params.schema_attribute_name)
         THEN <<DiscoverType("Model", name)>>
         ELSE IF is_ident(nested_meta, params.response_attribute_name)
         THEN <<DiscoverType("Response", name)>>
         ELSE <<>>

\* lines 105-118: the entries one nested meta of a derive list pushes
nested_meta_entries(nested_meta, name, params) ==
    IF Len(nested_meta.segments) = 2 /\ nested_meta.segments[1].ident = "utoipa"
    THEN CASE nested_meta.segments[2].ident = "ToSchema" ->
                <<DiscoverType("Model", name)>>
           [] nested_meta.segments[2].ident = "ToResponse" ->
                <<DiscoverType("Response", name)>>
           [] OTHER -> <<>>
    ELSE (IF is_ident(nested_meta, params.schema_attribute_name)
          THEN <<DiscoverType("Model", name)>> ELSE <<>>)
         \o
         (IF is_ident(nested_meta, params.response_attribute_name)
          THEN <<DiscoverType("Response", name)>> ELSE <<>>)

\* lines 104-119: for nested_meta in nested
RECURSIVE nested_loop(_, _, _)
nested_loop(nested, name, params) ==
    IF nested = <<>> THEN <<>>
    ELSE nested_meta_entries(Head(nested), name, params)
         \o nested_loop(Tail(nested), name, params)

\* attr.parse_args_with(Punctuated::<Meta, Token![,]>::parse_terminated):
\* an error unless the attribute is a list whose tokens parse
parse_args_with(attr) ==
    IF attr.form = "list" THEN Ok(attr.nested) ELSE Panic

\* lines 95-121: for attr in a, from attribute n on, with out collected so far
RECURSIVE attr_loop(_, _, _, _, _)
attr_loop(a, n, out, name, params) ==
    IF n > Len(a) THEN Ok(out)
    ELSE IF is_ident(a[n].path, "utoipa_ignore") THEN Ok(<<>>)
    ELSE IF is_ident(a[n].path, "derive")
         THEN LET nested == parse_args_with(a[n])
              IN  IF nested.panic THEN Panic
                  ELSE attr_loop(a, n + 1,
                                 out \o nested_loop(nested.out, name, params),
                                 name, params)
    ELSE attr_loop(a, n + 1, out, name, params)

\* parse_from_attr
parse_from_attr(a, name, generic_params, params) ==
    IF generic_params # <<>> THEN Ok(<<>>)
    ELSE attr_loop(a, 1, <<>>, name, params)

\* parse_from_impl
parse_from_impl(im, module_base_path, params) ==
    IF ~im.trait_.some \/ im.trait_.path.segments = <<>> THEN Ok(<<>>)
    ELSE LET impl_name ==
                 im.trait_.path.segments[Len(im.trait_.path.segments)].ident
             target == build_path(module_base_path, im.self_ty)
         IN  IF impl_name = params.schema_attribute_name
             THEN IF target.panic THEN Panic
                  ELSE Ok(<<DiscoverType("CustomModelImpl", target.out)>>)
             ELSE IF impl_name = params.response_attribute_name
             THEN IF target.panic THEN Panic
                  ELSE Ok(<<DiscoverType("CustomResponseImpl", target.out)>>)
             ELSE Ok(<<>>)

\* lines 58-63: the filter of parse_module_items
is_considered(e) == e.kind \in {"Mod", "Fn", "Struct", "Enum", "Impl"}

\* append putting the new entries in front of the accumulated ones
append_front(acc, v) == v \o acc

\* lines 21-24 and 77-80: acc.append(&mut v)
append(acc, v) == acc \o v

RECURSIVE parse_module_items(_, _, _)

\* lines 64-76: the closure mapped over the considered items
map_item(module_path, v, params) ==
    CASE v.kind = "Mod" ->
            IF v.inline
            THEN parse_module_items(
                     build_path(module_path, IdentTokens(v.ident)).out,
                     v.content, params)
            ELSE Ok(<<>>)
      [] v.kind = "Fn" ->
            LET fns == parse_function(v, params.fn_attribute_name)
            IN  Ok([n \in 1..Len(fns) |->
                     DiscoverType("Fn",
                         build_path(module_path, IdentTokens(fns[n])).out)])
      [] v.kind \in {"Struct", "Enum"} ->
            parse_from_attr(v.attrs,
                            build_path(module_path, IdentTokens(v.ident)).out,
                            v.generics, params)
      [] v.kind = "Impl" -> parse_from_impl(v, module_path, params)
      [] OTHER -> Ok(<<>>)

\* lines 77-80: the fold over the mapped items; a panic inside the closure
\* unwinds through the fold
RECURSIVE fold_items(_, _, _, _)
fold_items(module_path, items, acc, params) ==
    IF items = <<>> THEN Ok(acc)
    ELSE LET v == map_item(module_path, Head(items), params)
         IN  IF v.panic THEN Panic
             ELSE fold_items(module_path, Tail(items), append(acc, v.out), params)

parse_module_items(module_path, items, params) ==
    fold_items(module_path, SelectSeq(items, is_considered), <<>>, params)

\* push_entry filing a CustomModelImpl entry under the responses
push_entry_misfiled(acc, v) ==
    CASE v.kind = "Fn" -> <<Append(acc[1], v.path), acc[2], acc[3]>>
      [] v.kind = "Model" -> <<acc[1], Append(acc[2], v.path), acc[3]>>
      [] v.kind = "Response" -> <<acc[1], acc[2], Append(acc[3], v.path)>>
      [] v.kind = "CustomModelImpl" -> <<acc[1], acc[2], Append(acc[3], v.path)>>
      [] v.kind = "CustomResponseImpl" -> <<acc[1], acc[2], Append(acc[3], v.path)>>

\* lines 32-42: the closure of the second fold, on acc = <<acc.0, acc.1, acc.2>>
push_entry(acc, v) ==
    CASE v.kind = "Fn" -> <<Append(acc[1], v.path), acc[2], acc[3]>>
      [] v.kind = "Model" -> <<acc[1], Append(acc[2], v.path), acc[3]>>
      [] v.kind = "Response" -> <<acc[1], acc[2], Append(acc[3], v.path)>>
      [] v.kind = "CustomModelImpl" -> <<acc[1], Append(acc[2], v.path), acc[3]>>
      [] v.kind = "CustomResponseImpl" -> <<acc[1], acc[2], Append(acc[3], v.path)>>

\* discover_from_file, line 16: parse_files failed, unwrap_or_else panics
ParseFilesErr ==
    /\ pc = "start"
    /\ ~files.ok
    /\ pc' = "panic"
    /\ UNCHANGED <<files, parameters, cursor, entries, operations, models, responses>>

\* line 16: parse_files returned the files; the iterator chain starts
ParseFilesOk ==
    /\ pc = "start"
    /\ files.ok
    /\ pc' = "walk"
    /\ UNCHANGED <<files, parameters, cursor, entries, operations, models, responses>>

\* lines 20-24: the next file is mapped through parse_module_items and its
\* entries are appended to the accumulator
WalkFile ==
    /\ pc = "walk"
    /\ cursor <= Len(files.list)
    /\ LET e == files.list[cursor]
           v == parse_module_items(e.module, e.items, parameters)
       IN  /\ ~v.panic
           /\ entries' = append(entries, v.out)
    /\ cursor' = cursor + 1
    /\ UNCHANGED <<files, parameters, pc, operations, models, responses>>

\* lines 20-24: parse_module_items panicked on the next file; the unwinding
\* drops the accumulator and discover_from_file returns nothing
WalkPanic ==
    /\ pc = "walk"
    /\ cursor <= Len(files.list)
    /\ LET e == files.list[cursor]
       IN  parse_module_items(e.module, e.items, parameters).panic
    /\ pc' = "panic"
    /\ entries' = <<>>
    /\ UNCHANGED <<files, parameters, cursor, operations, models, responses>>

\* lines 25-31: the first fold is exhausted; the second starts on its result
StartFold ==
    /\ pc = "walk"
    /\ cursor > Len(files.list)
    /\ pc' = "fold"
    /\ cursor' = 1
    /\ UNCHANGED <<files, parameters, entries, operations, models, responses>>

\* lines 32-42: the second fold takes the next entry
FoldEntry ==
    /\ pc = "fold"
    /\ cursor <= Len(entries)
    /\ LET acc == push_entry(<<operations, models, responses>>, entries[cursor])
       IN  /\ operations' = acc[1]
           /\ models' = acc[2]
           /\ responses' = acc[3]
    /\ cursor' = cursor + 1
    /\ UNCHANGED <<files, parameters, pc, entries>>

\* line 44: the three vectors are returned
Return ==
    /\ pc = "fold"
    /\ cursor > Len(entries)
    /\ pc' = "done"
    /\ UNCHANGED <<files, parameters, cursor, entries, operations, models, responses>>

---------------------------------------------------------------------------
(* The inputs a run is started on *)

SeqsUpTo(S, n) == UNION {[1..k -> S] : k \in 0..n}

NoTrait == [some |-> FALSE, path |-> Idents(<<>>)]

NoType == [kind |-> "Path", qself |-> FALSE, position |-> 0, path |-> Idents(<<>>)]

ItemFn(id, attrs) ==
    [kind |-> "Fn", ident |-> id, attrs |-> attrs, generics |-> <<>>,
     trait_ |-> NoTrait, self_ty |-> NoType, inline |-> FALSE, content |-> <<>>]

ItemStruct(id, generics, attrs) ==
    [kind |-> "Struct", ident |-> id, attrs |-> attrs, generics |-> generics,
     trait_ |-> NoTrait, self_ty |-> NoType, inline |-> FALSE, content |-> <<>>]

ItemEnum(id, generics, attrs) ==
    [kind |-> "Enum", ident |-> id, attrs |-> attrs, generics |-> generics,
     trait_ |-> NoTrait, self_ty |-> NoType, inline |-> FALSE, content |-> <<>>]

ItemImpl(attrs, generics, trait, self_ty) ==
    [kind |-> "Impl", ident |-> "", attrs |-> attrs, generics |-> generics,
     trait_ |-> trait, self_ty |-> self_ty, inline |-> FALSE, content |-> <<>>]

ItemMod(id, inline, content) ==
    [kind |-> "Mod", ident |-> id, attrs |-> <<>>, generics |-> <<>>,
     trait_ |-> NoTrait, self_ty |-> NoType, inline |-> inline, content |-> content]

\* a declaration of a shape the walker does not consider (use a::b;)
ItemUse ==
    [kind |-> "Use", ident |-> "", attrs |-> <<>>, generics |-> <<>>,
     trait_ |-> NoTrait, self_ty |-> NoType, inline |-> FALSE, content |-> <<>>]

PlainAttr(ss) == [path |-> Idents(ss), form |-> "path", nested |-> <<>>]

\* #[::a::b]
ColonAttr(ss) == [path |-> ColonIdents(ss), form |-> "path", nested |-> <<>>]

Derive(nested) == [path |-> Idents(<<"derive">>), form |-> "list", nested |-> nested]

\* #[derive(..)] whose tokens are no comma-separated Meta list
BadDerive == [path |-> Idents(<<"derive">>), form |-> "badlist", nested |-> <<>>]

\* #[::derive(..)] with the same tokens
ColonBadDerive ==
    [path |-> ColonIdents(<<"derive">>), form |-> "badlist", nested |-> <<>>]

Ignore == PlainAttr(<<"utoipa_ignore">>)

SomeTrait(ss) == [some |-> TRUE, path |-> Idents(ss)]

TypePath(path) == [kind |-> "Path", qself |-> FALSE, position |-> 0, path |-> path]

\* <Foo>::a::b (position 0) or <Foo as a>::b (position 1)
QSelfPath(position, path) ==
    [kind |-> "Path", qself |-> TRUE, position |-> position, path |-> path]

Params(f, s, r) ==
    [fn_attribute_name |-> f, schema_attribute_name |-> s, response_attribute_name |-> r]

\* distinct marker names; equal model and response markers; the function
\* marker set to the ignore marker's name
ParamsSet ==
    { Params("op", "Schema", "Resp"),
      Params("op", "Schema", "Schema"),
      Params("utoipa_ignore", "Schema", "Resp") }

FnAttrs ==
    { PlainAttr(<<"op">>), PlainAttr(<<"a", "op">>), PlainAttr(<<"op", "op">>),
      Ignore, PlainAttr(<<"a", "utoipa_ignore">>), PlainAttr(<<"other">>),
      ColonAttr(<<"utoipa_ignore">>), ColonAttr(<<"op">>) }

NestedNames ==
    { Idents(<<"utoipa", "ToSchema">>), Idents(<<"utoipa", "ToResponse">>),
      Idents(<<"utoipa", "Schema">>), Idents(<<"a", "Schema">>),
      Idents(<<"Schema">>), Idents(<<"Resp">>),
      ColonIdents(<<"Schema">>), ColonIdents(<<"utoipa", "ToSchema">>) }

TypeAttrs ==
    { Ignore, PlainAttr(<<"other">>), BadDerive,
      ColonAttr(<<"utoipa_ignore">>), ColonBadDerive,
      Derive(<<Idents(<<"utoipa", "ToSchema">>)>>),
      Derive(<<Idents(<<"Schema">>), Idents(<<"Resp">>)>>) }

Generics == { <<>>, <<"T">> }

Traits ==
    { NoTrait, SomeTrait(<<"Schema">>), SomeTrait(<<"a", "Schema">>),
      SomeTrait(<<"Resp">>), SomeTrait(<<"Display">>) }

SelfTypes ==
    { TypePath(Idents(<<"Foo">>)), TypePath(Idents(<<"a", "Foo">>)),
      TypePath(Path(FALSE, <<SegArgs("Foo")>>)),
      TypePath(ColonIdents(<<"a", "Foo">>)),
      QSelfPath(0, Idents(<<"Out">>)),
      QSelfPath(1, Idents(<<"Tr", "Out">>)),
      [kind |-> "Reference", qself |-> FALSE, position |-> 0,
       path |-> Idents(<<"Foo">>)] }

\* implementation blocks: with or without the ignore marker, every trait and
\* every target type
ImplDecls ==
    {ItemImpl(a, <<>>, t, ty) :
        a \in {<<>>, <<Ignore>>}, t \in Traits, ty \in SelfTypes}

\* one declaration, with every combination of its attributes
UnitDecls ==
    {ItemFn("f", a) : a \in SeqsUpTo(FnAttrs, MaxAttrs)}
    \cup {ItemStruct("User", g, <<Derive(n)>>) :
             g \in Generics, n \in SeqsUpTo(NestedNames, MaxNested)}
    \cup {ItemStruct("User", g, a) : g \in Generics, a \in SeqsUpTo(TypeAttrs, MaxAttrs)}
    \cup {ItemEnum("Kind", g, a) : g \in Generics, a \in SeqsUpTo(TypeAttrs, MaxAttrs)}
    \cup ImplDecls
    \cup {ItemUse, ItemMod("ext", FALSE, <<>>)}

FnOp == ItemFn("f", <<PlainAttr(<<"op">>)>>)

StructUser ==
    ItemStruct("User", <<>>,
        <<Derive(<<Idents(<<"utoipa", "ToSchema">>), Idents(<<"utoipa", "ToResponse">>)>>)>>)

StructGen == ItemStruct("Gen", <<"T">>, <<Derive(<<Idents(<<"utoipa", "ToSchema">>)>>)>>)

ImplGen == ItemImpl(<<>>, <<"T">>, SomeTrait(<<"Schema">>), TypePath(Path(FALSE, <<SegArgs("Gen")>>)))

ImplUser == ItemImpl(<<>>, <<>>, SomeTrait(<<"Resp">>), TypePath(Idents(<<"User">>)))

\* the declarations of flat item lists
FlatLeaves == { FnOp, StructUser, StructGen, ImplGen, ImplUser, ItemUse }

\* the declarations placed in module trees
TreeLeaves == { FnOp, StructUser }

ModNames == <<"m1", "m2", "m3", "m4">>

OptLeaf == {<<>>} \cup {<<l>> : l \in TreeLeaves}

\* item lists nesting inline modules d deep: a flat list, or one module
\* (inline with a body of depth d-1) with an optional declaration before and
\* after it
RECURSIVE Tree(_)
Tree(d) ==
    IF d = 0 THEN SeqsUpTo(TreeLeaves, MaxItems)
    ELSE LET inner == Tree(d - 1)
         IN  inner \cup
             { pre \o <<ItemMod(ModNames[d], TRUE, c)>> \o post :
                 pre \in OptLeaf, post \in OptLeaf, c \in inner }

Root == Idents(<<"crate">>)

File(module, items) == [module |-> module, items |-> items]

Collected(list) == [ok |-> TRUE, list |-> list]

FileMods == <<"alpha", "beta", "gamma">>

FileItems ==
    { <<>>, <<FnOp>>, <<StructUser, FnOp>>, <<ItemStruct("User", <<>>, <<BadDerive>>)>> }

\* up to MaxFiles files, file k rooted at crate::FileMods[k]
MultiFiles ==
    UNION { { [k \in 1..n |-> File(Idents(<<"crate", FileMods[k]>>), its[k])] :
                its \in [1..n -> FileItems] } : n \in 0..MaxFiles }

Inputs ==
    ({Collected(<<File(Root, <<d>>)>>) : d \in UnitDecls} \X ParamsSet)
    \cup ({Collected(<<File(Root, its)>>) : its \in SeqsUpTo(FlatLeaves, MaxItems)}
          \X ParamsSet)
    \cup ({Collected(<<File(Root, <<ItemMod("m1", TRUE, <<d>>)>>)>>) : d \in ImplDecls}
          \X ParamsSet)
    \cup ({Collected(<<File(Root, its)>>) : its \in Tree(MaxDepth)}
          \X {Params("op", "Schema", "Resp")})
    \cup ({Collected(l) : l \in MultiFiles} \X {Params("op", "Schema", "Resp")})
    \cup {<<[ok |-> FALSE, list |-> <<>>], Params("op", "Schema", "Resp")>>}

Init ==
    /\ \E inp \in Inputs :
          /\ files = inp[1]
          /\ parameters = inp[2]
    /\ pc = "start"
    /\ cursor = 1
    /\ entries = <<>>
    /\ operations = <<>>
    /\ models = <<>>
    /\ responses = <<>>

Next ==
    \/ ParseFilesErr
    \/ ParseFilesOk
    \/ WalkFile
    \/ WalkPanic
    \/ StartFold
    \/ FoldEntry
    \/ Return

Spec == Init /\ [][Next]_vars

---------------------------------------------------------------------------
(* Vocabulary of the properties: the declarations of an input addressed by *)
(* position, independently of the walker's recursion                       *)

\* positions are index paths: <<2, 1>> is the first item of the inline
\* module that is the second item of the file
RECURSIVE Positions(_)
Positions(items) ==
    UNION { {<<n>>} \cup
            (IF items[n].kind = "Mod" /\ items[n].inline
             THEN {<<n>> \o q : q \in Positions(items[n].content)}
             ELSE {}) : n \in 1..Len(items) }

RECURSIVE ItemAt(_, _)
ItemAt(items, pos) ==
    IF Len(pos) = 1 THEN items[pos[1]]
    ELSE ItemAt(items[pos[1]].content, Tail(pos))

\* the names of the modules enclosing position pos, outermost first
RECURSIVE Enclosing(_, _)
Enclosing(items, pos) ==
    IF Len(pos) = 1 THEN <<>>
    ELSE <<items[pos[1]].ident>> \o Enclosing(items[pos[1]].content, Tail(pos))

\* root :: seg_1 :: ... :: seg_k for the declaration at pos
NamespaceAt(file, pos) ==
    Path(file.module.leading_colon,
         file.module.segments \o Segs(Enclosing(file.items, pos)))

RECURSIVE LexLess(_, _)
LexLess(p, q) ==
    IF p = <<>> THEN q # <<>>
    ELSE IF q = <<>> THEN FALSE
    ELSE \/ p[1] < q[1]
         \/ p[1] = q[1] /\ LexLess(Tail(p), Tail(q))

RECURSIVE Sorted(_)
Sorted(S) ==
    IF S = {} THEN <<>>
    ELSE LET m == CHOOSE x \in S : \A y \in S : x = y \/ LexLess(x, y)
         IN  <<m>> \o Sorted(S \ {m})

\* the positions of a file in source document order
DocOrder(file) == Sorted(Positions(file.items))

IsDecl(it) == it.kind \in {"Fn", "Struct", "Enum", "Impl"}

\* the positions of the declarations the classifier is handed
DeclPositions(file) == {pos \in Positions(file.items) : IsDecl(ItemAt(file.items, pos))}

\* the declaration's own name as it ends a path: its identifier, or for an
\* implementation block its target type as written
DeclName(it) ==
    IF it.kind = "Impl" THEN it.self_ty.path.segments ELSE <<Seg(it.ident)>>

\* what the classifier returns for the declaration at pos
Classified(file, pos) ==
    map_item(NamespaceAt(file, pos), ItemAt(file.items, pos), parameters)

\* the declaration carries #[utoipa_ignore]: the bare identifier, which
\* ::utoipa_ignore and a::utoipa_ignore are not
HasIgnore(it) == \E n \in 1..Len(it.attrs) : it.attrs[n].path = Idents(<<"utoipa_ignore">>)

HasBadDerive(it) ==
    \E n \in 1..Len(it.attrs) :
        it.attrs[n].path = Idents(<<"derive">>) /\ it.attrs[n].form # "list"

RECURSIVE Concat(_)
Concat(ss) == IF ss = <<>> THEN <<>> ELSE Head(ss) \o Concat(Tail(ss))

PathsOf(es) == [n \in 1..Len(es) |-> es[n].path]

KindsOf(es) == [n \in 1..Len(es) |-> es[n].kind]

OfKind(es, kinds) == LET keep(e) == e.kind \in kinds IN SelectSeq(es, keep)

Range(q) == {q[n] : n \in 1..Len(q)}

IdentsOf(path) == [n \in 1..Len(path.segments) |-> path.segments[n].ident]

Started == pc \in {"walk", "fold", "done"}

\* the run was started on one file holding exactly one declaration
SingleDecl == files.ok /\ Len(files.list) = 1 /\ Len(files.list[1].items) = 1

TheDecl == files.list[1].items[1]

TheRoot == files.list[1].module

\* the files whose walk has completed
WalkedFiles == IF pc = "walk" THEN cursor - 1 ELSE Len(files.list)

---------------------------------------------------------------------------
(* Properties *)

\* the attached annotations of f that have a segment equal to m
MatchingAnnotations(f, m) ==
    {n \in 1..Len(f.attrs) :
        \E k \in 1..Len(f.attrs[n].path.segments) :
            f.attrs[n].path.segments[k].ident = m}

OperationCount(f, m) ==
    IF f.attrs = <<>> \/ HasIgnore(f) THEN 0
    ELSE Cardinality(MatchingAnnotations(f, m))

\* C2: for every function declaration f of the input and the configured
\* function marker m, parse_function emits 0 entries if f has no annotation
\* or carries the ignore marker, and otherwise exactly one entry naming f per
\* annotation that has a segment equal to m (not per segment, not
\* deduplicated); a run on a single function therefore returns that many
\* copies of root::f as Operations and nothing else.
C2_OneOperationPerMatchingAnnotation ==
    /\ files.ok =>
          \A k \in 1..Len(files.list) : \A pos \in DeclPositions(files.list[k]) :
              LET f == ItemAt(files.list[k].items, pos)
                  m == parameters.fn_attribute_name
              IN  f.kind = "Fn" =>
                      parse_function(f, m) = [n \in 1..OperationCount(f, m) |-> f.ident]
    /\ (pc = "done" /\ SingleDecl /\ TheDecl.kind = "Fn") =>
          /\ operations =
                [n \in 1..OperationCount(TheDecl, parameters.fn_attribute_name) |->
                    Path(FALSE, TheRoot.segments \o <<Seg(TheDecl.ident)>>)]
          /\ models = <<>>
          /\ responses = <<>>

\* C2 witness: a function whose two annotations both match, one of them with
\* the marker in two segments, was returned twice
C2_Witness ==
    /\ pc = "done"
    /\ SingleDecl
    /\ TheDecl.kind = "Fn"
    /\ TheDecl.attrs = <<PlainAttr(<<"op", "op">>), PlainAttr(<<"a", "op">>)>>
    /\ parameters.fn_attribute_name = "op"
    /\ operations = <<Idents(<<"crate", "f">>), Idents(<<"crate", "f">>)>>

\* the nested names of the well-formed derive annotations of a declaration,
\* in source order
DeriveNames(it) ==
    Concat([n \in 1..Len(it.attrs) |->
              IF it.attrs[n].path = Idents(<<"derive">>) /\ it.attrs[n].form = "list"
              THEN it.attrs[n].nested ELSE <<>>])

IsModelMarker(p) ==
    \/ p.segments = Segs(<<"utoipa", "ToSchema">>)
    \/ p = Idents(<<parameters.schema_attribute_name>>)

IsResponseMarker(p) ==
    \/ p.segments = Segs(<<"utoipa", "ToResponse">>)
    \/ p = Idents(<<parameters.response_attribute_name>>)

MarkerEntries(p, name) ==
    (IF IsModelMarker(p) THEN <<DiscoverType("Model", name)>> ELSE <<>>)
    \o (IF IsResponseMarker(p) THEN <<DiscoverType("Response", name)>> ELSE <<>>)

\* C6: a run on a single non-generic struct or enum that carries no ignore
\* marker and no malformed derive collects, for each nested name of each
\* derive annotation in order, a Model entry if the name is utoipa::ToSchema
\* or the configured model marker and a Response entry if it is
\* utoipa::ToResponse or the configured response marker: both for a name that
\* is both, one entry per qualifying name, nothing for any other name.
\* The built-in names are recognised by their two segments, with or without
\* a leading ::; a configured marker is matched only by the bare identifier.
C6_EntriesPerDeriveName ==
    (/\ SingleDecl
     /\ TheDecl.kind \in {"Struct", "Enum"}
     /\ TheDecl.generics = <<>>
     /\ ~HasIgnore(TheDecl)
     /\ ~HasBadDerive(TheDecl)) =>
        /\ pc # "panic"
        /\ pc \in {"fold", "done"} =>
              LET name == Path(FALSE, TheRoot.segments \o <<Seg(TheDecl.ident)>>)
                  names == DeriveNames(TheDecl)
              IN  entries = Concat([n \in 1..Len(names) |-> MarkerEntries(names[n], name)])

\* C6 witness: with equal model and response markers, a type deriving the
\* marker and the built-in ToSchema was returned twice as a model and once
\* as a response
C6_Witness ==
    /\ pc = "done"
    /\ SingleDecl
    /\ TheDecl.kind = "Struct"
    /\ TheDecl.attrs =
          <<Derive(<<Idents(<<"Schema">>), Idents(<<"utoipa", "ToSchema">>)>>)>>
    /\ TheDecl.generics = <<>>
    /\ parameters.response_attribute_name = parameters.schema_attribute_name
    /\ Len(models) = 2
    /\ Len(responses) = 1

\* the entries of the files walked so far, file by file as the walker
\* returns them
WalkerOutput(n) ==
    Concat([k \in 1..n |->
              parse_module_items(files.list[k].module, files.list[k].items,
                                 parameters).out])

\* the entries the second fold has taken
Folded == IF pc = "fold" THEN SubSeq(entries, 1, cursor - 1) ELSE entries

\* C8: the three returned collections partition the concatenated entry list
\* (files in collector order, each file's entries in walker order) in order:
\* Operations is the subsequence of Fn entries, Models that of Model and
\* CustomModelImpl entries, Responses that of Response and
\* CustomResponseImpl entries; nothing is dropped, reordered or deduplicated.
C8_OrderPreservingPartition ==
    pc \in {"fold", "done"} =>
        /\ entries = WalkerOutput(Len(files.list))
        /\ operations = PathsOf(OfKind(Folded, {"Fn"}))
        /\ models = PathsOf(OfKind(Folded, {"Model", "CustomModelImpl"}))
        /\ responses = PathsOf(OfKind(Folded, {"Response", "CustomResponseImpl"}))
        /\ Len(operations) + Len(models) + Len(responses) = Len(Folded)

\* C8 witness: two files were walked and all three collections are filled,
\* the second file's paths after the first's
C8_Witness ==
    /\ pc = "done"
    /\ Len(files.list) = 2
    /\ operations = <<Idents(<<"crate", "alpha", "f">>), Idents(<<"crate", "beta", "f">>)>>
    /\ models = <<Idents(<<"crate", "alpha", "User">>), Idents(<<"crate", "beta", "User">>)>>
    /\ responses = models

\* the positions of file k whose declaration the classifier returns entries for
Emitting(k) ==
    {pos \in DeclPositions(files.list[k]) : Classified(files.list[k], pos).out # <<>>}

\* root :: seg_1 :: ... :: seg_k :: d for the declaration at pos
QualifiedPath(file, pos) ==
    Path(file.module.leading_colon,
         file.module.segments \o Segs(Enclosing(file.items, pos))
             \o DeclName(ItemAt(file.items, pos)))

\* the tokens of a segment list: each identifier, followed by its generic
\* arguments where it has some
RECURSIVE SegTokens(_)
SegTokens(segments) ==
    IF segments = <<>> THEN <<>>
    ELSE <<segments[1].ident>>
         \o (IF segments[1].arguments = "None" THEN <<>> ELSE <<"<..>">>)
         \o SegTokens(Tail(segments))

\* the tokens of a declaration's name as written: the identifier, or the
\* target type of an implementation block (<Foo>::Out starts with <..>)
DeclTokens(it) ==
    IF it.kind = "Impl"
    THEN (IF it.self_ty.qself THEN <<"<..>">> ELSE <<>>)
         \o SegTokens(it.self_ty.path.segments)
    ELSE <<it.ident>>

\* the tokens of root :: seg_1 :: ... :: seg_k :: d for the declaration at pos
QualifiedTokens(file, pos) ==
    SegTokens(file.module.segments) \o Enclosing(file.items, pos)
        \o DeclTokens(ItemAt(file.items, pos))

\* the declarations whose name is written without a qualified self type
PlainlyNamed(k) ==
    {pos \in Emitting(k) : ~ItemAt(files.list[k].items, pos).self_ty.qself}

\* C4: every path the walker emits for a declaration d nested below the
\* inline modules seg_1 (outermost) ... seg_k of a file rooted at root is
\* root :: seg_1 :: ... :: seg_k :: d (d being the declaration's identifier,
\* or the target type of an implementation block, as written): the emitted
\* paths are, token for token, exactly these concatenations, and are these
\* very syn paths for every declaration whose name holds no qualified self
\* type; so every emitted path starts with the root path of one of the
\* files and is longer than it, and each level of nesting adds exactly the
\* module's own name.
C4_FullyQualifiedPaths ==
    Started =>
        /\ {SegTokens(p.segments) : p \in Range(PathsOf(entries))} =
              UNION { {QualifiedTokens(files.list[k], pos) : pos \in Emitting(k)} :
                        k \in 1..WalkedFiles }
        /\ \A k \in 1..WalkedFiles : \A pos \in PlainlyNamed(k) :
              QualifiedPath(files.list[k], pos) \in Range(PathsOf(entries))
        /\ \A n \in 1..Len(entries) : \E k \in 1..WalkedFiles :
              LET root == files.list[k].module
                  path == entries[n].path
              IN  /\ Len(path.segments) > Len(root.segments)
                  /\ SubSeq(IdentsOf(path), 1, Len(root.segments)) = IdentsOf(root)
                  /\ path.leading_colon = root.leading_colon

\* C4 witness: a function two modules deep was returned under both module
\* names, outermost first
C4_Witness ==
    /\ pc = "done"
    /\ Len(files.list) = 1
    /\ files.list[1].items =
          <<ItemMod("m2", TRUE, <<ItemMod("m1", TRUE, <<FnOp>>)>>)>>
    /\ operations = <<Idents(<<"crate", "m2", "m1", "f">>)>>

\* C10: the walker's list for a file is the concatenation of the classifier's
\* entries for the function, struct, enum and implementation-block
\* declarations of the file taken in source document order, depth first: the
\* entries of an inline module stand where the module is declared among its
\* siblings, a module without inline body and a declaration of any other
\* shape contribute nothing.
C10_DocumentOrder ==
    Started =>
        entries =
            Concat([k \in 1..WalkedFiles |->
                LET file == files.list[k]
                    order == DocOrder(file)
                IN  Concat([n \in 1..Len(order) |->
                        IF IsDecl(ItemAt(file.items, order[n]))
                        THEN Classified(file, order[n]).out
                        ELSE <<>>])])

\* C10 witness: a function, then a module holding a struct, then a function:
\* the struct's entries were returned between the two functions'
C10_Witness ==
    /\ pc = "done"
    /\ Len(files.list) = 1
    /\ KindsOf(files.list[1].items) = <<"Fn", "Mod", "Fn">>
    /\ PathsOf(entries) =
          <<Idents(<<"crate", "f">>), Idents(<<"crate", "m2", "User">>),
            Idents(<<"crate", "m2", "User">>), Idents(<<"crate", "f">>)>>
    /\ KindsOf(entries) = <<"Fn", "Model", "Response", "Fn">>

\* C1: no declaration of the input that carries the ignore marker
\* utoipa_ignore (function, struct, enum or implementation block, at any
\* depth) has an entry emitted for it, whatever matching markers it also
\* carries; a run on a single such declaration returns three empty
\* collections.
C1_IgnoredDeclarationEmitsNothing ==
    pc = "done" =>
        /\ \A k \in 1..Len(files.list) : \A pos \in DeclPositions(files.list[k]) :
              HasIgnore(ItemAt(files.list[k].items, pos)) =>
                  Classified(files.list[k], pos).out = <<>>
        /\ (SingleDecl /\ IsDecl(TheDecl) /\ HasIgnore(TheDecl)) =>
              /\ operations = <<>>
              /\ models = <<>>
              /\ responses = <<>>

\* C3: no struct or enum declared with generic parameters appears in the
\* returned Models or Responses, whatever else is declared beside it: no
\* returned path names namespace :: (the generic type's identifier).
C3_GenericTypeNeverListed ==
    pc = "done" =>
        \A k \in 1..Len(files.list) : \A pos \in DeclPositions(files.list[k]) :
            LET it == ItemAt(files.list[k].items, pos)
            IN  (it.kind \in {"Struct", "Enum"} /\ it.generics # <<>>) =>
                    \A p \in Range(models) \cup Range(responses) :
                        IdentsOf(p) # IdentsOf(QualifiedPath(files.list[k], pos))

\* C5: for a run on a single implementation block with target type T in
\* namespace p, n being the last segment of the implemented trait: if n is
\* the configured model marker the walker emits one CustomModelImpl entry
\* p :: T, if n is the configured response marker it emits one
\* CustomResponseImpl entry p :: T (also when the two markers are equal), and
\* an inherent block or a block of any other trait emits nothing.
C5_ImplBlockEntries ==
    (SingleDecl /\ TheDecl.kind = "Impl" /\ pc \in {"fold", "done", "panic"}) =>
        LET trt == TheDecl.trait_
            n == trt.path.segments[Len(trt.path.segments)].ident
            target == Path(FALSE, TheRoot.segments \o TheDecl.self_ty.path.segments)
        IN  IF ~trt.some
            THEN pc # "panic" /\ entries = <<>>
            ELSE /\ n = parameters.schema_attribute_name =>
                        OfKind(entries, {"CustomModelImpl"}) =
                            <<DiscoverType("CustomModelImpl", target)>>
                 /\ n = parameters.response_attribute_name =>
                        OfKind(entries, {"CustomResponseImpl"}) =
                            <<DiscoverType("CustomResponseImpl", target)>>
                 /\ n \notin {parameters.schema_attribute_name,
                              parameters.response_attribute_name} =>
                        pc # "panic" /\ entries = <<>>

\* C7: a run aborts only when the collector failed or a struct or enum of
\* the input carries a malformed derive annotation, and an aborted run has
\* returned nothing.
C7_AbortsOnlyOnCollectorOrDerive ==
    pc = "panic" =>
        /\ \/ ~files.ok
           \/ \E k \in 1..Len(files.list) : \E pos \in DeclPositions(files.list[k]) :
                 LET it == ItemAt(files.list[k].items, pos)
                 IN  it.kind \in {"Struct", "Enum"} /\ HasBadDerive(it)
        /\ operations = <<>>
        /\ models = <<>>
        /\ responses = <<>>

\* C9: a run on a single struct or enum that has generic parameters, or that
\* carries the ignore marker at any position of its annotation list, does
\* not abort and collects no entries, even when the declaration also carries
\* a malformed derive annotation.
C9_ExclusionBeforeScanning ==
    (/\ SingleDecl
     /\ TheDecl.kind \in {"Struct", "Enum"}
     /\ TheDecl.generics # <<>> \/ HasIgnore(TheDecl)) =>
        /\ pc # "panic"
        /\ entries = <<>>

====
